---- MODULE Spec2Model ----
(***************************************************************************)
(* A model of dashboard.py, the database variant of the Superstore         *)
(* dashboard: the six SQL reports of `queries`, get_connection             *)
(* (st.cache_resource), run_query (st.cache_data, ttl = 600) and one       *)
(* script run per view selection.                                          *)
(*                                                                         *)
(* Encoding.  A nullable SQL value is a set: {} is NULL, {x} is x.         *)
(* Money is in whole currency units; a value SQL rounds to d decimals is   *)
(* kept as an integer number of 10^-d units (profit_margin_percentage and  *)
(* avg_discount_percentage in hundredths of a percent, avg_shipping_days   *)
(* in tenths of a day); discount is in hundredths (0.5 is 50).             *)
(* A table without a key is a sequence of rows (a bag in physical order);  *)
(* a keyed table is a set of rows.  A dataframe is [cols, rows].           *)
(*                                                                         *)
(* Outside dashboard.py.  PostgreSQL: NUMERIC division by zero raises,     *)
(* aggregates skip NULL, ORDER BY puts NULL first under DESC and leaves    *)
(* the order of equal keys open; the quotient is rounded once (its         *)
(* intermediate scale is not modelled).  pandas: read_sql_query rolls the  *)
(* connection back when the statement raises.  Streamlit: cache_resource   *)
(* keeps any return value for good, cache_data keeps one for ttl seconds   *)
(* per argument.  plotly and the frame accessors raise for a column the    *)
(* frame does not have, and for nothing else.                              *)
(***************************************************************************)
EXTENDS Integers, Sequences, FiniteSets, TLC

VARIABLES
    db,          \* the database: its tables, and which of them exist
    reachable,   \* whether the server accepts connections
    conn,        \* st.cache_resource entry of get_connection
    cache,       \* st.cache_data entries of run_query, keyed by query text
    now,         \* seconds since the first script run
    ticks,       \* clock steps taken
    changes,     \* database changes made
    runs,        \* script runs made
    last         \* what the last script run did and showed

vars == <<db, reachable, conn, cache, now, ticks, changes, runs, last>>

-----------------------------------------------------------------------------
(* Bounds of the model *)

MaxRuns == 2
MaxTicks == 1
MaxChanges == 1
MaxStock == 16
MaxStockOrders == 2
MaxCustomers == 16
MaxProfitOrders == 2
MaxDiscountOrders == 3

(* Program constants *)

TTL == 600
TopCustomersLimit == 10
InventoryLimit == 15
PremiumLimit == 15
PremiumMinOrders == 5
HeadRows == 10

-----------------------------------------------------------------------------
(* SQL values *)

NULL == {}

Val(v) == CHOOSE x \in v : TRUE

Abs(x) == IF x < 0 THEN -x ELSE x

\* ROUND(n / d, k) of a NUMERIC, as an integer count of 10^-k units when n is
\* already scaled: half away from zero.  d # 0.
RoundDiv(n, d) ==
    LET q == (2 * Abs(n) + Abs(d)) \div (2 * Abs(d))
    IN  IF (n < 0) = (d < 0) THEN q ELSE -q

RECURSIVE SumOver(_, _)
\* the sum of the non-NULL values of f over the index set S (0 when none)
SumOver(f, S) ==
    IF S = {} THEN 0
    ELSE LET i == CHOOSE x \in S : TRUE
         IN  (IF f[i] = NULL THEN 0 ELSE Val(f[i])) + SumOver(f, S \ {i})

NonNull(f, S) == {i \in S : f[i] # NULL}

\* SUM(col): NULL when the group has no non-NULL value
SqlSum(f, S) == IF NonNull(f, S) = {} THEN NULL ELSE {SumOver(f, S)}

\* the average cut off after the last kept decimal instead of rounded
SqlAvgTruncated(f, S, scale) ==
    IF NonNull(f, S) = {} THEN NULL
    ELSE {(SumOver(f, S) * scale) \div Cardinality(NonNull(f, S))}

\* ROUND(AVG(col) * scale, ...) in scaled integer units; NULL when no value
SqlAvgScaled(f, S, scale) ==
    IF NonNull(f, S) = {} THEN NULL
    ELSE {RoundDiv(SumOver(f, S) * scale, Cardinality(NonNull(f, S)))}

\* COUNT(DISTINCT col)
CountDistinct(f, S) == Cardinality({f[i] : i \in NonNull(f, S)})

\* ORDER BY key: PostgreSQL sorts NULL as larger than every value, so NULLs
\* come first under DESC and last under ASC.
Precedes(a, b, desc) ==
    IF desc THEN a = NULL \/ (b # NULL /\ Val(a) >= Val(b))
    ELSE b = NULL \/ (a # NULL /\ Val(a) <= Val(b))

RECURSIVE Orderings(_, _, _, _)
\* The row sequences ORDER BY col [DESC] LIMIT k may return for the row set S:
\* rows equal on the sort key come in an order SQL leaves unspecified.
Orderings(S, col, desc, k) ==
    IF S = {} \/ k = 0 THEN {<<>>}
    ELSE LET first == {x \in S : \A y \in S : Precedes(x[col], y[col], desc)}
         IN  UNION {{<<x>> \o t : t \in Orderings(S \ {x}, col, desc, k - 1)} : x \in first}

-----------------------------------------------------------------------------
(* The report catalog: queries *)

QueryNames ==
    {"profit_by_category", "top_customers", "inventory_stock",
     "discount_analysis", "shipping_performance", "premium_customers"}

\* the tables each query reads
QueryTables(q) ==
    CASE q = "profit_by_category" -> {"superstore_order", "superstore_product"}
      [] q = "top_customers" -> {"superstore_order", "superstore_customer"}
      [] q = "inventory_stock" -> {"product_stock", "superstore_order"}
      [] q = "discount_analysis" -> {"superstore_order", "superstore_product"}
      [] q = "shipping_performance" -> {"superstore_order"}
      [] q = "premium_customers" -> {"superstore_order"}

\* the columns of each query's result
QueryColumns(q) ==
    CASE q = "profit_by_category" ->
            {"category", "sub_category", "total_sales", "total_profit",
             "profit_margin_percentage"}
      [] q = "top_customers" ->
            {"customer_name", "segment", "total_orders", "total_spend"}
      [] q = "inventory_stock" ->
            {"product_name", "current_stock", "total_units_sold"}
      [] q = "discount_analysis" ->
            {"category", "sub_category", "avg_discount_percentage",
             "avg_profit_per_item"}
      [] q = "shipping_performance" ->
            {"ship_mode", "total_orders", "avg_shipping_days"}
      [] q = "premium_customers" ->
            {"customer_name", "total_transactions", "total_spent",
             "avg_sales_per_item"}

Col(t, c) == [i \in DOMAIN t |-> t[i][c]]

\* superstore_order so JOIN superstore_product sp ON so.product_id = sp.product_id:
\* the order rows (by index) that have a product, and that product
ProductOf(d, i) == {p \in d.products : p.product_id = d.orders[i].product_id}
JoinedProduct(d) == {i \in DOMAIN d.orders : ProductOf(d, i) # {}}
ProductGroups(d) ==
    {[category |-> p.category, sub_category |-> p.sub_category] :
        p \in UNION {ProductOf(d, i) : i \in JoinedProduct(d)}}
ProductGroupRows(d, g) ==
    {i \in JoinedProduct(d) :
        \E p \in ProductOf(d, i) :
            p.category = g.category /\ p.sub_category = g.sub_category}

\* (SUM(profit) / SUM(sales)) * 100 rounded to 2 decimals, in hundredths of a
\* percent.  numeric division is strict: a NULL operand gives NULL.
Margin(sales, profit) ==
    IF sales = NULL \/ profit = NULL THEN NULL
    ELSE {RoundDiv(Val(profit) * 10000, Val(sales))}

\* a group whose division raises "division by zero"
DividesByZero(d, g) ==
    LET S == ProductGroupRows(d, g)
    IN  /\ SqlSum(Col(d.orders, "sales"), S) = {0}
        /\ SqlSum(Col(d.orders, "profit"), S) # NULL

ProfitRows(d) ==
    {[category |-> g.category,
      sub_category |-> g.sub_category,
      total_sales |-> SqlSum(Col(d.orders, "sales"), ProductGroupRows(d, g)),
      total_profit |-> SqlSum(Col(d.orders, "profit"), ProductGroupRows(d, g)),
      profit_margin_percentage |->
          IF DividesByZero(d, g) THEN NULL
          ELSE Margin(SqlSum(Col(d.orders, "sales"), ProductGroupRows(d, g)),
                      SqlSum(Col(d.orders, "profit"), ProductGroupRows(d, g)))] :
        g \in ProductGroups(d)}

\* superstore_order so JOIN superstore_customer sc ON so.customer_id = sc.customer_id
CustomerOf(d, i) == {c \in d.customers : c.customer_id = d.orders[i].customer_id}
JoinedCustomer(d) == {i \in DOMAIN d.orders : CustomerOf(d, i) # {}}
CustomerGroups(d) ==
    {[customer_name |-> c.customer_name, segment |-> c.segment] :
        c \in UNION {CustomerOf(d, i) : i \in JoinedCustomer(d)}}
CustomerGroupRows(d, g) ==
    {i \in JoinedCustomer(d) :
        \E c \in CustomerOf(d, i) :
            c.customer_name = g.customer_name /\ c.segment = g.segment}

TopCustomerRows(d) ==
    {[customer_name |-> g.customer_name,
      segment |-> g.segment,
      total_orders |-> {CountDistinct(Col(d.orders, "order_id"), CustomerGroupRows(d, g))},
      total_spend |-> SqlSum(Col(d.orders, "sales"), CustomerGroupRows(d, g))] :
        g \in CustomerGroups(d)}

\* product_stock ps LEFT JOIN superstore_order so ON ps.product_id = so.product_id,
\* GROUP BY ps.product_id, ps.product_name, ps.stock
StockOrders(d, ps) == {i \in DOMAIN d.orders : d.orders[i].product_id = ps.product_id}

\* SUM(so.quantity) without the COALESCE
UnitsSoldNoCoalesce(d, ps) == SqlSum(Col(d.orders, "quantity"), StockOrders(d, ps))

UnitsSold(d, ps) ==
    LET s == SqlSum(Col(d.orders, "quantity"), StockOrders(d, ps))
    IN  IF s = NULL THEN {0} ELSE s

InventoryRows(d) ==
    {[product_id |-> ps.product_id,
      product_name |-> ps.product_name,
      current_stock |-> ps.stock,
      total_units_sold |-> UnitsSold(d, ps)] : ps \in d.stock}
\* (product_id, the key of the group, tells the rows apart; it is not a column
\* of the frame)

DiscountRows(d) ==
    {[category |-> g.category,
      sub_category |-> g.sub_category,
      avg_discount_percentage |->
          SqlAvgScaled(Col(d.orders, "discount"), ProductGroupRows(d, g), 100),
      avg_profit_per_item |->
          SqlAvgScaled(Col(d.orders, "profit"), ProductGroupRows(d, g), 100)] :
        g \in ProductGroups(d)}

\* GROUP BY ship_mode over superstore_order alone
ShipModes(d) == {d.orders[i].ship_mode : i \in DOMAIN d.orders}
ShipModeRows(d, m) == {i \in DOMAIN d.orders : d.orders[i].ship_mode = m}
ShipDays(d) ==
    [i \in DOMAIN d.orders |->
        IF d.orders[i].ship_date = NULL \/ d.orders[i].order_date = NULL THEN NULL
        ELSE {Val(d.orders[i].ship_date) - Val(d.orders[i].order_date)}]

ShippingRows(d) ==
    {[ship_mode |-> m,
      total_orders |-> {Cardinality(NonNull(Col(d.orders, "order_id"), ShipModeRows(d, m)))},
      avg_shipping_days |-> SqlAvgScaled(ShipDays(d), ShipModeRows(d, m), 10)] :
        m \in ShipModes(d)}

\* GROUP BY customer_name over superstore_order alone, HAVING COUNT(DISTINCT order_id) > 5
OrderCustomers(d) == {d.orders[i].customer_name : i \in DOMAIN d.orders}
OrderCustomerRows(d, n) == {i \in DOMAIN d.orders : d.orders[i].customer_name = n}

PremiumGroup(d, n) ==
    [customer_name |-> n,
     total_transactions |-> {CountDistinct(Col(d.orders, "order_id"), OrderCustomerRows(d, n))},
     total_spent |-> SqlSum(Col(d.orders, "sales"), OrderCustomerRows(d, n)),
     avg_sales_per_item |-> SqlAvgScaled(Col(d.orders, "sales"), OrderCustomerRows(d, n), 100)]

Having(r) == Val(r.total_transactions) > PremiumMinOrders

PremiumRows(d) == {r \in {PremiumGroup(d, n) : n \in OrderCustomers(d)} : Having(r)}

-----------------------------------------------------------------------------
(* Executing a query *)

\* the statement raises: a table it reads does not exist, or a group of the
\* profitability report divides by zero
QueryFails(q, d) ==
    \/ QueryTables(q) \cap d.missing # {}
    \/ /\ q = "profit_by_category"
       /\ \E g \in ProductGroups(d) : DividesByZero(d, g)

\* the row sequences the statement may return when it does not raise
QueryResults(q, d) ==
    CASE q = "profit_by_category" ->
            Orderings(ProfitRows(d), "total_profit", TRUE, Cardinality(ProfitRows(d)))
      [] q = "top_customers" ->
            Orderings(TopCustomerRows(d), "total_spend", TRUE, TopCustomersLimit)
      [] q = "inventory_stock" ->
            Orderings(InventoryRows(d), "current_stock", FALSE, InventoryLimit)
      [] q = "discount_analysis" ->
            Orderings(DiscountRows(d), "avg_profit_per_item", TRUE, Cardinality(DiscountRows(d)))
      [] q = "shipping_performance" ->
            Orderings(ShippingRows(d), "avg_shipping_days", FALSE, Cardinality(ShippingRows(d)))
      [] q = "premium_customers" ->
            Orderings(PremiumRows(d), "total_spent", TRUE, PremiumLimit)

\* pd.DataFrame(): no columns, no rows
EmptyFrame == [cols |-> {}, rows |-> <<>>]

Frame(q, rows) == [cols |-> QueryColumns(q), rows |-> rows]

-----------------------------------------------------------------------------
(* get_connection and run_query *)

\* st.cache_resource keeps whatever get_connection returned, None included,
\* for the life of the process.  conn is "unset" before the first call, then
\* "None" or "open"; "aborted" is an open connection whose transaction failed.
NoEntry == [present |-> FALSE, df |-> EmptyFrame, stored |-> 0]

\* the state a script run threads through its calls
Ctx(c, ch) ==
    [conn |-> c, cache |-> ch,
     executed |-> {},   \* queries sent to the database
     failed |-> {},     \* queries that raised
     hits |-> {},       \* calls served from the cache
     expired |-> {},    \* calls that found their entry past its ttl
     connects |-> 0,    \* psycopg2.connect calls
     shown |-> {}]      \* st.error messages

\* get_connection without the caching of a failed attempt: every call tries again
GetConnectionRetry(s) ==
    IF s.conn # "unset" THEN s
    ELSE IF reachable
         THEN [s EXCEPT !.conn = "open", !.connects = @ + 1]
         ELSE [s EXCEPT !.connects = @ + 1,
                        !.shown = @ \cup {"Database connection error"}]

\* get_connection: the cached value, or one psycopg2.connect whose failure is
\* caught, shown and returned (and cached) as None
GetConnection(s) ==
    IF s.conn # "unset" THEN s
    ELSE IF reachable
         THEN [s EXCEPT !.conn = "open", !.connects = @ + 1]
         ELSE [s EXCEPT !.conn = "None", !.connects = @ + 1,
                        !.shown = @ \cup {"Database connection error"}]

\* an entry still served at the very second its ttl runs out
FreshInclusive(e, t) == e.present /\ t - e.stored <= TTL

\* an entry that never expires
FreshForever(e, t) == e.present

\* st.cache_data(ttl=600): an entry is served while its age is below the ttl
Fresh(e, t) == e.present /\ t - e.stored < TTL

Store(s, q, df) ==
    [s EXCEPT !.cache[q] = [present |-> TRUE, df |-> df, stored |-> now]]

\* the connection left as psycopg2 leaves it, without a rollback
NoRollback(c) == "aborted"

\* psycopg2 leaves the transaction aborted when a statement raises;
\* pandas rolls the connection back before it re-raises
AfterQueryError(c) == "open"

\* pd.read_sql_query raises
ExecFails(c, q, d) == c = "aborted" \/ QueryFails(q, d)

\* run_query(query): the outcomes [s, df] of one call
RunQuery(s, q) ==
    IF Fresh(s.cache[q], now)
    THEN {[s |-> [s EXCEPT !.hits = @ \cup {q}], df |-> s.cache[q].df]}
    ELSE LET g == GetConnection(
                    IF s.cache[q].present THEN [s EXCEPT !.expired = @ \cup {q}] ELSE s)
         IN  IF g.conn = "None"
             THEN {[s |-> Store(g, q, EmptyFrame), df |-> EmptyFrame]}
             ELSE IF ExecFails(g.conn, q, db)
             THEN {[s |-> Store([g EXCEPT !.conn = AfterQueryError(g.conn),
                                          !.executed = @ \cup {q},
                                          !.failed = @ \cup {q},
                                          !.shown = @ \cup {"Query error"}],
                                q, EmptyFrame),
                    df |-> EmptyFrame]}
             ELSE {[s |-> Store([g EXCEPT !.executed = @ \cup {q}], q, Frame(q, r)),
                    df |-> Frame(q, r)] : r \in QueryResults(q, db)}

-----------------------------------------------------------------------------
(* The views *)

ViewNames ==
    {"Overview", "Profitability Analysis", "Customer Analysis",
     "Inventory Management", "Discount Impact", "Shipping Performance",
     "Premium Customers"}

\* the queries a view runs, in order
ViewQueries(v) ==
    CASE v = "Overview" -> <<"profit_by_category", "top_customers", "shipping_performance">>
      [] v = "Profitability Analysis" -> <<"profit_by_category">>
      [] v = "Customer Analysis" -> <<"top_customers">>
      [] v = "Inventory Management" -> <<"inventory_stock">>
      [] v = "Discount Impact" -> <<"discount_analysis">>
      [] v = "Shipping Performance" -> <<"shipping_performance">>
      [] v = "Premium Customers" -> <<"premium_customers">>

\* the columns a view reads from the frame of query q
ViewColumns(v, q) ==
    IF v = "Overview"
    THEN CASE q = "profit_by_category" -> {"total_sales", "total_profit", "category"}
           [] q = "top_customers" -> {}
           [] q = "shipping_performance" -> {"ship_mode", "avg_shipping_days"}
    ELSE QueryColumns(q)

\* the view's try block raises (KeyError, or plotly's ValueError for a column
\* the frame does not have)
ViewRaises(v, frames) ==
    \E i \in DOMAIN ViewQueries(v) :
        ~(ViewColumns(v, ViewQueries(v)[i]) \subseteq frames[ViewQueries(v)[i]].cols)

FrameHead(df, n) == SubSeq(df.rows, 1, IF Len(df.rows) < n THEN Len(df.rows) ELSE n)
FrameTail(df, n) == SubSeq(df.rows, IF Len(df.rows) < n THEN 1 ELSE Len(df.rows) - n + 1, Len(df.rows))

\* df[col].sum(): missing values are skipped
FrameSum(df, c) == SumOver(Col(df.rows, c), DOMAIN df.rows)

\* the Overview metrics: Total Sales, Total Profit, Avg Profit Margin (in
\* hundredths of a percent, as "{avg_margin:.2f}" shows it)
Metrics(df) ==
    [total_sales |-> FrameSum(df, "total_sales"),
     total_profit |-> FrameSum(df, "total_profit"),
     avg_margin |->
        IF FrameSum(df, "total_sales") > 0
        THEN RoundDiv(FrameSum(df, "total_profit") * 10000, FrameSum(df, "total_sales"))
        ELSE 0]

NoMetrics == [total_sales |-> 0, total_profit |-> 0, avg_margin |-> 0]

NoFrames == [q \in QueryNames |-> EmptyFrame]

\* a view body outside any try: the exception ends the script run
ViewStatusNoExcept(raises) == IF raises THEN "crashed" ELSE "ok"

\* every view body is inside try/except Exception, which shows the error
ViewStatus(raises) == IF raises THEN "error" ELSE "ok"

Seen(v, s, frames) ==
    [view |-> v,
     called |-> {ViewQueries(v)[i] : i \in DOMAIN ViewQueries(v)},
     frames |-> frames,
     executed |-> s.executed,
     failed |-> s.failed,
     hits |-> s.hits,
     expired |-> s.expired,
     connects |-> s.connects,
     shown |-> s.shown \cup (IF ViewRaises(v, frames) THEN {"Error"} ELSE {}),
     status |-> ViewStatus(ViewRaises(v, frames)),
     metrics |-> IF v = "Overview" /\ ~ViewRaises(v, frames)
                 THEN Metrics(frames["profit_by_category"]) ELSE NoMetrics,
     top10 |-> IF v = "Profitability Analysis" /\ ~ViewRaises(v, frames)
               THEN FrameHead(frames["profit_by_category"], HeadRows) ELSE <<>>,
     bottom10 |-> IF v = "Profitability Analysis" /\ ~ViewRaises(v, frames)
                  THEN FrameTail(frames["profit_by_category"], HeadRows) ELSE <<>>,
     footer |-> ViewStatus(ViewRaises(v, frames)) # "crashed",
     server_up |-> reachable]

\* one run of the script with view_option = v: the view's queries, its
\* rendering inside try/except, then the footer
ScriptRun(v) ==
    /\ runs < MaxRuns
    /\ \E r1 \in RunQuery(Ctx(conn, cache), ViewQueries(v)[1]) :
         IF v = "Overview"
         THEN \E r2 \in RunQuery(r1.s, ViewQueries(v)[2]) :
              \E r3 \in RunQuery(r2.s, ViewQueries(v)[3]) :
                /\ conn' = r3.s.conn
                /\ cache' = r3.s.cache
                /\ last' = Seen(v, r3.s,
                                [NoFrames EXCEPT ![ViewQueries(v)[1]] = r1.df,
                                                 ![ViewQueries(v)[2]] = r2.df,
                                                 ![ViewQueries(v)[3]] = r3.df])
         ELSE /\ conn' = r1.s.conn
              /\ cache' = r1.s.cache
              /\ last' = Seen(v, r1.s, [NoFrames EXCEPT ![ViewQueries(v)[1]] = r1.df])
    /\ runs' = runs + 1
    /\ UNCHANGED <<db, reachable, now, ticks, changes>>

-----------------------------------------------------------------------------
(* The environment: the clock and the database *)

Order(oid, pid, cid, sales, profit, qty) ==
    [order_id |-> {oid}, product_id |-> pid, customer_id |-> cid,
     customer_name |-> cid, sales |-> sales, profit |-> profit,
     quantity |-> qty, discount |-> {0}, ship_mode |-> "Standard Class",
     order_date |-> {1}, ship_date |-> {3}]

Products ==
    {[product_id |-> "P1", category |-> "Furniture", sub_category |-> "Chairs"],
     [product_id |-> "P2", category |-> "Technology", sub_category |-> "Phones"]}

Customers ==
    {[customer_id |-> "Ann", customer_name |-> "Ann", segment |-> "Consumer"],
     [customer_id |-> "Bob", customer_name |-> "Bob", segment |-> "Corporate"]}

Stock ==
    {[product_id |-> "P1", product_name |-> "Chair", stock |-> {4}],
     [product_id |-> "P2", product_name |-> "Phone", stock |-> {7}]}

TableNames ==
    {"superstore_order", "superstore_product", "superstore_customer", "product_stock"}

\* the order rows the environment may insert
NewOrders == {Order(2, "P2", "Bob", {20}, {5}, {1})}

InitOrders == <<Order(1, "P1", "Ann", {10}, {4}, {2})>>

BaseDb ==
    [orders |-> InitOrders, products |-> Products, customers |-> Customers,
     stock |-> Stock, missing |-> {}]

NoLast ==
    [view |-> "", called |-> {}, frames |-> NoFrames, executed |-> {},
     failed |-> {}, hits |-> {}, expired |-> {},
     connects |-> 0, shown |-> {}, status |-> "", metrics |-> NoMetrics,
     top10 |-> <<>>, bottom10 |-> <<>>, footer |-> FALSE, server_up |-> FALSE]

Init ==
    /\ db = BaseDb
    /\ reachable \in BOOLEAN
    /\ conn = "unset"
    /\ cache = [q \in QueryNames |-> NoEntry]
    /\ now = 0
    /\ ticks = 0
    /\ changes = 0
    /\ runs = 0
    /\ last = NoLast

\* time passes after a script run (the clock starts with the first run)
Tick ==
    /\ runs > 0
    /\ ticks < MaxTicks
    /\ \E dt \in {TTL - 1, TTL} : now' = now + dt
    /\ ticks' = ticks + 1
    /\ UNCHANGED <<db, reachable, conn, cache, changes, runs, last>>

\* another client inserts an order line
InsertOrder ==
    /\ changes < MaxChanges
    /\ \E o \in NewOrders : db' = [db EXCEPT !.orders = Append(@, o)]
    /\ changes' = changes + 1
    /\ UNCHANGED <<reachable, conn, cache, now, ticks, runs, last>>

\* a table is dropped, or created again (empty tables are not modelled: the
\* table comes back with its rows)
AlterTable ==
    /\ changes < MaxChanges
    /\ \E t \in TableNames :
         db' = [db EXCEPT !.missing = IF t \in @ THEN @ \ {t} ELSE @ \cup {t}]
    /\ changes' = changes + 1
    /\ UNCHANGED <<reachable, conn, cache, now, ticks, runs, last>>

\* the server stops or starts accepting new connections
ServerFlip ==
    /\ changes < MaxChanges
    /\ reachable' = ~reachable
    /\ changes' = changes + 1
    /\ UNCHANGED <<db, conn, cache, now, ticks, runs, last>>

Next ==
    \/ \E v \in ViewNames : ScriptRun(v)
    \/ Tick
    \/ InsertOrder
    \/ AlterTable
    \/ ServerFlip

Spec == Init /\ [][Next]_vars

-----------------------------------------------------------------------------
(* Properties of run_query, get_connection and the views *)

\* a step is a script run
IsRun == runs' = runs + 1

\* what the database answers to q when its tables are d
Answers(q, d) ==
    IF QueryFails(q, d) THEN {EmptyFrame} ELSE {Frame(q, r) : r \in QueryResults(q, d)}

\* C4: a query that raised during a script run gave that run an empty frame,
\* which is also what the cache keeps; the run did not crash: its view is
\* "ok" or "error" and the footer was reached.
C4_QueryFailureCaught ==
    last.failed # {} =>
        /\ \A q \in last.failed :
             /\ last.frames[q] = EmptyFrame
             /\ "Query error" \in last.shown
             /\ cache[q].present /\ cache[q].df = EmptyFrame
        /\ last.status \in {"ok", "error"}
        /\ last.status = "error" <=> ViewRaises(last.view, last.frames)
        /\ last.status = "error" => "Error" \in last.shown
        /\ last.footer

\* a run whose query raised, whose view showed the error and reached the footer
C4_Witness ==
    /\ last.failed # {}
    /\ last.status = "error"
    /\ last.footer

C6_ConnectionFailureFatal ==
    [][IsRun =>
        /\ conn = "None" =>
             /\ conn' = "None"
             /\ last'.connects = 0
             /\ last'.executed = {}
             /\ \A q \in last'.called : last'.frames[q] = EmptyFrame
             /\ last'.status = "error"
             /\ last'.metrics = NoMetrics /\ last'.top10 = <<>> /\ last'.bottom10 = <<>>
        /\ (conn = "unset" /\ ~reachable /\ last'.connects > 0) =>
             /\ conn' = "None"
             /\ last'.connects = 1
             /\ "Database connection error" \in last'.shown
             /\ last'.executed = {}]_vars

\* a script run made while the server was reachable again, after the failure
C6_Witness ==
    /\ conn = "None"
    /\ last.server_up
    /\ last.connects = 0
    /\ last.called # {}
    /\ last.status = "error"

\* C7: in every script run, a query whose entry is younger than 600 seconds
\* is answered from the entry and not sent to the database; a query whose
\* entry is absent or 600 seconds old or older is, when there is a
\* connection, sent to the database once and its result stored under its own
\* text at the current time; no other query's entry changes.
C7_TtlCache ==
    [][IsRun =>
        /\ \A q \in last'.called :
             IF cache[q].present /\ now - cache[q].stored < TTL
             THEN /\ q \notin last'.executed
                  /\ last'.frames[q] = cache[q].df
                  /\ cache'[q] = cache[q]
             ELSE /\ conn' # "None" => q \in last'.executed
                  /\ cache'[q] = [present |-> TRUE, df |-> last'.frames[q], stored |-> now]
        /\ \A q \in QueryNames \ last'.called : cache'[q] = cache[q]]_vars

\* a result served from the cache one second before it expires
C7_Witness ==
    /\ conn = "open"
    /\ \E q \in last.hits :
         /\ q \notin last.executed
         /\ now - cache[q].stored = TTL - 1
         /\ cache[q].df.cols # {}

\* C8 as claimed: every script run with a connection shows, for each of its
\* queries, an answer of the database to it as the tables are at that time.
C8_RebuiltOnSourceChange ==
    [][IsRun /\ conn' = "open" =>
        \A q \in last'.called : last'.frames[q] \in Answers(q, db)]_vars

\* C8 amended: a stored result younger than 600 seconds is returned as it is,
\* whatever the tables have become; a query whose entry is absent or has
\* expired returns, with a connection, an answer to it as the tables are now.
C8_RebuiltOnExpiry ==
    [][IsRun =>
        \A q \in last'.called :
            IF cache[q].present /\ now - cache[q].stored < TTL
            THEN last'.frames[q] = cache[q].df
            ELSE conn' = "open" => last'.frames[q] \in Answers(q, db)]_vars

\* a script run that showed a stored result the database no longer gives
C8_Witness ==
    /\ conn = "open"
    /\ db.missing = {}
    /\ \E q \in last.hits :
         /\ last.frames[q].cols # {}
         /\ last.frames[q] \notin Answers(q, db)

-----------------------------------------------------------------------------
(* The reports over fixed tables *)

Run == \E v \in ViewNames : ScriptRun(v)

SeqsUpTo(S, n) == UNION {[1..k -> S] : k \in 0..n}

Min(a, b) == IF a < b THEN a ELSE b

\* Stock tables of n products keyed 1..n: stock rising with the key, falling
\* with it, equal from the report's last row on, or missing for product 1
StockPatterns == {"rising", "falling", "level", "missing"}

StockLevel(p, i, n) ==
    CASE p = "rising" -> {i}
      [] p = "falling" -> {n - i}
      [] p = "level" -> {Min(i, InventoryLimit)}
      [] p = "missing" -> IF i = 1 THEN NULL ELSE {i}

StockTable(n, p) ==
    {[product_id |-> i, product_name |-> i, stock |-> StockLevel(p, i, n)] : i \in 1..n}

\* order lines of product 1 and of a product that is not in stock, with a
\* quantity or without
StockOrderRows ==
    {Order(1, pid, "Ann", {10}, {4}, qty) : pid \in {1, 99}, qty \in {NULL, {3}}}

InventoryDbs ==
    {[orders |-> o, products |-> {}, customers |-> {}, stock |-> StockTable(n, p),
      missing |-> {}] :
        o \in SeqsUpTo(StockOrderRows, MaxStockOrders), n \in 0..MaxStock, p \in StockPatterns}

InitFixed(dbs) ==
    /\ db \in dbs
    /\ reachable = TRUE
    /\ conn = "unset"
    /\ cache = [q \in QueryNames |-> NoEntry]
    /\ now = 0
    /\ ticks = 0
    /\ changes = 0
    /\ runs = 0
    /\ last = NoLast

InitInventory == InitFixed(InventoryDbs)

NextInventory == ScriptRun("Inventory Management") \/ Tick

SpecInventory == InitInventory /\ [][NextInventory]_vars

\* Order tables of up to MaxProfitOrders lines of product P1, P2 or a product
\* PX that superstore_product does not have, sales missing, 0 or 10, profit 4 or -4
ProfitOrderRows ==
    {Order(1, pid, "Ann", sales, profit, {1}) :
        pid \in {"P1", "P2", "PX"}, sales \in {NULL, {0}, {10}}, profit \in {{4}, {-4}}}

ProfitDbs ==
    {[BaseDb EXCEPT !.orders = o] : o \in SeqsUpTo(ProfitOrderRows, MaxProfitOrders)}

\* Order tables of n customers 1..n with PremiumMinOrders + 1 lines each,
\* every line an order of its own, except that the last two lines of customer
\* f (if any) are one order; a line of customer c sells for c, and the lines
\* of customer z (if any) have no sales value
PremiumOrders(n, z, f) ==
    [k \in 1..(n * (PremiumMinOrders + 1)) |->
        LET c == ((k - 1) \div (PremiumMinOrders + 1)) + 1
            j == ((k - 1) % (PremiumMinOrders + 1)) + 1
        IN  Order(IF c = f /\ j = PremiumMinOrders + 1 THEN 100 * c + j - 1 ELSE 100 * c + j,
                  "P1", c, IF c = z THEN NULL ELSE {c}, {1}, {1})]

PremiumDbs ==
    {[orders |-> PremiumOrders(n, z, f), products |-> Products, customers |-> {},
      stock |-> Stock, missing |-> {}] :
        n \in 0..MaxCustomers, z \in {0, 1, 2}, f \in {0, 1}}

InitReports == InitFixed(ProfitDbs \cup PremiumDbs)

NextReports == Run \/ Tick

SpecReports == InitReports /\ [][NextReports]_vars

-----------------------------------------------------------------------------
(* Properties of the reports *)

ProfitFrame == last.frames["profit_by_category"]

\* C1 as claimed: whenever the Profitability view has run, every (category,
\* sub_category) group of the joined orders has a row in the report, and the
\* row of a group whose total_sales is 0 has profit_margin_percentage = 0.
C1_MarginZeroWhenNoSales ==
    last.view = "Profitability Analysis" =>
        \A g \in ProductGroups(db) :
            \E i \in DOMAIN ProfitFrame.rows :
                /\ ProfitFrame.rows[i].category = g.category
                /\ ProfitFrame.rows[i].sub_category = g.sub_category
                /\ SqlSum(Col(db.orders, "sales"), ProductGroupRows(db, g)) = {0}
                     => ProfitFrame.rows[i].profit_margin_percentage = {0}

InventoryFrame == last.frames["inventory_stock"]

HasOrders(pid) == \E i \in DOMAIN db.orders : db.orders[i].product_id = pid

ReportedAt(pid) == {i \in DOMAIN InventoryFrame.rows : InventoryFrame.rows[i].product_id = pid}

\* C2 as claimed: whenever the Inventory view has run, every product of
\* product_stock is on exactly one row of the report, and a product without
\* order lines has total_units_sold = 0.
C2_EveryProductOnce ==
    last.view = "Inventory Management" =>
        \A ps \in db.stock :
            /\ Cardinality(ReportedAt(ps.product_id)) = 1
            /\ ~HasOrders(ps.product_id) =>
                 \A i \in ReportedAt(ps.product_id) :
                     InventoryFrame.rows[i].total_units_sold = {0}

\* C2 amended: whenever the Inventory view has run, the report has
\* min(15, number of products) rows, each a product of product_stock with its
\* name and stock, no product twice, so every product is on exactly one row
\* when there are at most 15; no product left out precedes a reported one in
\* stock order; total_units_sold is never missing, and is 0 for a product
\* without order lines.
C2_LowestStockOnce ==
    last.view = "Inventory Management" =>
        /\ Len(InventoryFrame.rows) = Min(Cardinality(db.stock), InventoryLimit)
        /\ \A ps \in db.stock :
             /\ Cardinality(ReportedAt(ps.product_id)) <= 1
             /\ Cardinality(db.stock) <= InventoryLimit =>
                  Cardinality(ReportedAt(ps.product_id)) = 1
             /\ ReportedAt(ps.product_id) = {} =>
                  \A i \in DOMAIN InventoryFrame.rows :
                      Precedes(InventoryFrame.rows[i].current_stock, ps.stock, FALSE)
        /\ \A i \in DOMAIN InventoryFrame.rows :
             /\ \E ps \in db.stock :
                  /\ ps.product_id = InventoryFrame.rows[i].product_id
                  /\ ps.product_name = InventoryFrame.rows[i].product_name
                  /\ ps.stock = InventoryFrame.rows[i].current_stock
             /\ InventoryFrame.rows[i].total_units_sold # NULL
             /\ ~HasOrders(InventoryFrame.rows[i].product_id) =>
                  InventoryFrame.rows[i].total_units_sold = {0}

\* the report of a stock table of more than 15 products, cut to 15 rows, one
\* of them a product without order lines whose units sold show as 0
C2_Witness ==
    /\ last.view = "Inventory Management"
    /\ Cardinality(db.stock) > InventoryLimit
    /\ Len(InventoryFrame.rows) = InventoryLimit
    /\ Len(db.orders) > 0
    /\ \E i \in DOMAIN InventoryFrame.rows :
         /\ ~HasOrders(InventoryFrame.rows[i].product_id)
         /\ InventoryFrame.rows[i].total_units_sold = {0}

PremiumFrame == last.frames["premium_customers"]

\* the distinct orders and the spending of a customer, counted from the order lines
OrdersOf(n) ==
    {db.orders[i].order_id : i \in {k \in DOMAIN db.orders :
        db.orders[k].customer_name = n /\ db.orders[k].order_id # NULL}}

SpentBy(n) ==
    SumOver(Col(db.orders, "sales"), {k \in DOMAIN db.orders : db.orders[k].customer_name = n})

Listed == {PremiumFrame.rows[i].customer_name : i \in DOMAIN PremiumFrame.rows}

\* C3 as claimed: whenever the Premium Customers view has run, every listed
\* customer has more than 5 distinct orders, there are at most 15 rows, the
\* non-missing total_spent values do not rise down the list, and no customer
\* with more than 5 distinct orders who is left out has spent more than a
\* listed one.
C3_PremiumTopSpenders ==
    last.view = "Premium Customers" =>
        /\ \A n \in Listed : Cardinality(OrdersOf(n)) > PremiumMinOrders
        /\ Len(PremiumFrame.rows) <= PremiumLimit
        /\ \A i, j \in DOMAIN PremiumFrame.rows :
             (/\ i < j
              /\ PremiumFrame.rows[i].total_spent # NULL
              /\ PremiumFrame.rows[j].total_spent # NULL)
                => Val(PremiumFrame.rows[i].total_spent) >= Val(PremiumFrame.rows[j].total_spent)
        /\ \A n \in OrderCustomers(db) \ Listed :
             Cardinality(OrdersOf(n)) > PremiumMinOrders =>
                 \A m \in Listed : SpentBy(n) <= SpentBy(m)

\* C9 as claimed: whenever the Overview has rendered, its Total Sales metric
\* is the sum of the non-missing sales of all order lines.
C9_NoOrderLineDropped ==
    (last.view = "Overview" /\ last.status = "ok") =>
        last.metrics.total_sales = SumOver(Col(db.orders, "sales"), DOMAIN db.orders)

\* C10 as claimed: over unchanged tables, a query executed again returns the
\* frame its previous execution returned (the one its expired cache entry
\* holds): the same rows in the same order.
C10_SameRowsSameOrder ==
    [][IsRun =>
        \A q \in last'.executed :
            cache[q].present => last'.frames[q] = cache[q].df]_vars

-----------------------------------------------------------------------------
(* The Discount Impact report over fixed tables *)

\* Order tables of up to MaxDiscountOrders lines of product P1 or P2, each
\* with discount 0 and profit 50, discount 0.5 and profit 10, no discount
\* value, or no profit value
DiscountOrderRows ==
    {[Order(1, pid, "Ann", {10}, dp[2], {1}) EXCEPT !.discount = dp[1]] :
        pid \in {"P1", "P2"},
        dp \in {<<{0}, {50}>>, <<{50}, {10}>>, <<NULL, {10}>>, <<{50}, NULL>>}}

DiscountDbs ==
    {[BaseDb EXCEPT !.orders = o] : o \in SeqsUpTo(DiscountOrderRows, MaxDiscountOrders)}

InitDiscount == InitFixed(DiscountDbs)

NextDiscount == ScriptRun("Discount Impact") \/ Tick

SpecDiscount == InitDiscount /\ [][NextDiscount]_vars

DiscountFrame == last.frames["discount_analysis"]

\* the order lines of a report row's group, read from the tables
LinesOf(r) ==
    {i \in DOMAIN db.orders :
        \E p \in db.products :
            /\ p.product_id = db.orders[i].product_id
            /\ p.category = r.category
            /\ p.sub_category = r.sub_category}

Present(S, c) == {i \in S : db.orders[i][c] # NULL}

Total(S, c) == SumOver(Col(db.orders, c), S)

\* v (in hundredths) is the mean of column c over S, times k, exactly
IsMean(v, S, c, k) ==
    IF Present(S, c) = {} THEN v = NULL
    ELSE v # NULL /\ Val(v) * Cardinality(Present(S, c)) = k * Total(S, c)

\* v (in hundredths) is that mean rounded to the nearest hundredth, a half
\* away from zero
IsRoundedMean(v, S, c, k) ==
    IF Present(S, c) = {} THEN v = NULL
    ELSE /\ v # NULL
         /\ 2 * Abs(Val(v) * Cardinality(Present(S, c)) - k * Total(S, c))
                <= Cardinality(Present(S, c))
         /\ 2 * Abs(Val(v) * Cardinality(Present(S, c)) - k * Total(S, c))
                = Cardinality(Present(S, c))
              => Abs(Val(v)) * Cardinality(Present(S, c)) > Abs(k * Total(S, c))

OneRowPerGroup ==
    /\ \A i, j \in DOMAIN DiscountFrame.rows :
         LinesOf(DiscountFrame.rows[i]) = LinesOf(DiscountFrame.rows[j]) => i = j
    /\ \A i \in DOMAIN DiscountFrame.rows : LinesOf(DiscountFrame.rows[i]) # {}
    /\ \A k \in DOMAIN db.orders :
         (\E p \in db.products : p.product_id = db.orders[k].product_id)
            => \E i \in DOMAIN DiscountFrame.rows : k \in LinesOf(DiscountFrame.rows[i])

\* C11 as claimed: whenever the Discount Impact view has run, the report has
\* one row per (category, sub_category) group; its avg_discount_percentage is
\* 100 times the mean of the group's non-missing discounts rounded to 2
\* decimals, its avg_profit_per_item is the mean of the group's non-missing
\* profits, and the non-missing means do not rise down the rows.
C11_DiscountMeans ==
    last.view = "Discount Impact" =>
        /\ OneRowPerGroup
        /\ \A i \in DOMAIN DiscountFrame.rows :
             /\ IsRoundedMean(DiscountFrame.rows[i].avg_discount_percentage,
                              LinesOf(DiscountFrame.rows[i]), "discount", 100)
             /\ IsMean(DiscountFrame.rows[i].avg_profit_per_item,
                       LinesOf(DiscountFrame.rows[i]), "profit", 100)
        /\ \A i, j \in DOMAIN DiscountFrame.rows :
             (/\ i < j
              /\ Present(LinesOf(DiscountFrame.rows[i]), "profit") # {}
              /\ Present(LinesOf(DiscountFrame.rows[j]), "profit") # {})
                => Total(LinesOf(DiscountFrame.rows[i]), "profit")
                     * Cardinality(Present(LinesOf(DiscountFrame.rows[j]), "profit"))
                   >= Total(LinesOf(DiscountFrame.rows[j]), "profit")
                     * Cardinality(Present(LinesOf(DiscountFrame.rows[i]), "profit"))

\* C11 amended: whenever the Discount Impact view has run, the report has one
\* row per (category, sub_category) group of the order lines that have a
\* product; avg_discount_percentage is 100 times the mean of the non-missing
\* discounts rounded to 2 decimals, avg_profit_per_item is the mean of the
\* non-missing profits rounded to 2 decimals, either is missing when the group
\* has no such value, and the rows come with a missing avg_profit_per_item
\* first, then by the rounded avg_profit_per_item descending.
C11_DiscountRoundedMeans ==
    last.view = "Discount Impact" =>
        /\ OneRowPerGroup
        /\ \A i \in DOMAIN DiscountFrame.rows :
             /\ IsRoundedMean(DiscountFrame.rows[i].avg_discount_percentage,
                              LinesOf(DiscountFrame.rows[i]), "discount", 100)
             /\ IsRoundedMean(DiscountFrame.rows[i].avg_profit_per_item,
                              LinesOf(DiscountFrame.rows[i]), "profit", 100)
        /\ \A i, j \in DOMAIN DiscountFrame.rows :
             i < j =>
                \/ DiscountFrame.rows[i].avg_profit_per_item = NULL
                \/ /\ DiscountFrame.rows[j].avg_profit_per_item # NULL
                   /\ Val(DiscountFrame.rows[i].avg_profit_per_item)
                        >= Val(DiscountFrame.rows[j].avg_profit_per_item)

\* a report with a group of three lines whose means (16.666... percent and
\* 36.666...) are reported as 16.67 and 36.67
C11_Witness ==
    /\ last.view = "Discount Impact"
    /\ \E i \in DOMAIN DiscountFrame.rows :
         /\ Cardinality(LinesOf(DiscountFrame.rows[i])) = 3
         /\ DiscountFrame.rows[i].avg_discount_percentage = {1667}
         /\ DiscountFrame.rows[i].avg_profit_per_item = {3667}

====
